---- MODULE Spec2Model ----
(***************************************************************************)
(* Model of the Strava local heatmap generator                             *)
(* (src/strava_local_heatmap.py, src/osm_helpers.py, src/file_helpers.py). *)
(*                                                                         *)
(* Six specifications share the module's variables; each one drives the    *)
(* variables of one part of the program and leaves the others idle:        *)
(*   SpecMonth      extract_start_stop_from_month as a pure function       *)
(*   SpecMain       main's month loop                                      *)
(*   SpecTiles      create_heatmap's tile phase: download_tiles_for_area   *)
(*                  and create_supertile, over repeated calls              *)
(*   SpecDensity    create_heatmap's density phase: crop, accumulation,    *)
(*                  clamp, box_filter and normalisation                    *)
(*   SpecComposite  create_heatmap's colour and composite phase            *)
(*   SpecGeo        the projection (deg2xy, deg2tile_coord, num2deg) and   *)
(*                  create_heatmap's tile extent                           *)
(***************************************************************************)
EXTENDS Integers, Sequences, FiniteSets, TLC

VARIABLES
    \* ---- main / extract_start_stop_from_month
    month,      \* args.month, a sequence of one-character strings
    start,      \* first month of the loop
    stop,       \* one past the last month of the loop
    pc,         \* position in main (or in the pure-function harness)
    i,          \* main's loop variable
    acts,       \* the activities: month -> kind of point set it holds
    cur,        \* the kind of point set of the month being handled
    log,        \* what main has done so far, in order
    \* ---- create_heatmap, tile phase
    rect,       \* [xmin, xmax, ymin, ymax]: the tile index rectangle
    cache,      \* the tiles/ folder: tile <<x, y>> -> what its file holds
    tpc,        \* position in the tile phase
    tk,         \* position of the running tile loop (1 = first tile)
    requests,   \* the tiles requested from the tile server, in order
    nreads,     \* number of tile files create_supertile has read
    reported,   \* 'ERROR zoom value too high' has been printed
    traised,    \* the exception that ended the tile phase, or "none"
    calls,      \* the number of the running create_heatmap call (1 = first)
    prior,      \* the tiles requested by the earlier calls, in order
    \* ---- create_heatmap, density phase
    lat_lon_data,   \* the points: [i, j, inb], see GeoPoints
    sigma_pixels,   \* the sigma_pixels argument
    clampIn,        \* [pr, nr]: pixel_res (metres per pixel) and nr_activities
    dpc,            \* position in the density phase
    dk,             \* loop variable k of the accumulation (1 = first point)
    accum,          \* data after the accumulation loop (lines 133-141)
    clamped,        \* data after the threshold (line 150), in fifths
    smooth,         \* data after box_filter (line 155), in 1/(5 w^2)
    norm,           \* data after normalisation (line 158): [num, den]
    draised,        \* the exception that ended the density phase, or "none"
    \* ---- create_heatmap, colour and composite phase
    supertile,          \* the base mosaic: one grey value per pixel
    data,               \* the normalised density: one level per pixel
    data_color,         \* the colour of each pixel (lines 162-166)
    supertile_overlay,  \* the output image (lines 169-172)
    chan,               \* loop variable c of the composite (line 170)
    cpc,                \* position in the colour and composite phase
    \* ---- projection and tile extent
    heatmap_zoom,   \* the zoom level
    bound,          \* the bounding box [lat_min, lat_max, lon_min, lon_max]
    equal_extent,   \* create_heatmap's argument equal
    points,         \* the points of the first create_heatmap call
    points2,        \* the points of the second call on the same box and zoom
    extent1,        \* the first call's tile rectangle, or its exception
    extent2,        \* the second call's
    xy_tile,        \* the tile index <<xi, yi>> given to num2deg
    lat_lon,        \* num2deg's result
    tile_back,      \* deg2tile_coord of lat_lon
    gpc             \* position in the projection part

mainVars == <<month, start, stop, pc, i, acts, cur, log>>

tileVars == <<rect, cache, tpc, tk, requests, nreads, reported, traised,
              calls, prior>>

densVars == <<lat_lon_data, sigma_pixels, clampIn, dpc, dk, accum,
              clamped, smooth, norm, draised>>

compVars == <<supertile, data, data_color, supertile_overlay, chan, cpc>>

geoVars == <<heatmap_zoom, bound, equal_extent, points, points2, extent1,
             extent2, xy_tile, lat_lon, tile_back, gpc>>

vars == <<mainVars, tileVars, densVars, compVars, geoVars>>

(***************************************************************************)
(* Strings.  A Python string is a sequence of one-character strings.       *)
(***************************************************************************)
Digits == <<"0", "1", "2", "3", "4", "5", "6", "7", "8", "9">>

DigitSet == {Digits[d] : d \in 1..10}

DigitVal(c) == (CHOOSE d \in 1..10 : Digits[d] = c) - 1

\* str(n) for n >= 0: the decimal digits, most significant first
RECURSIVE Str(_)
Str(n) == IF n < 10 THEN <<Digits[n + 1]>>
          ELSE Str(n \div 10) \o <<Digits[(n % 10) + 1]>>

\* int(s): defined on non-empty digit strings, ValueError otherwise
IsInt(s) == Len(s) > 0 /\ \A k \in 1..Len(s) : s[k] \in DigitSet

RECURSIVE ParseInt(_)
ParseInt(s) == IF Len(s) = 0 THEN 0
               ELSE 10 * ParseInt(SubSeq(s, 1, Len(s) - 1)) + DigitVal(s[Len(s)])

\* s.split(sep) for a one-character sep: the pieces between the separators
RECURSIVE SplitFrom(_, _, _)
SplitFrom(s, sep, piece) ==
    IF Len(s) = 0 THEN <<piece>>
    ELSE IF Head(s) = sep THEN <<piece>> \o SplitFrom(Tail(s), sep, <<>>)
    ELSE SplitFrom(Tail(s), sep, Append(piece, Head(s)))

Split(s, sep) == SplitFrom(s, sep, <<>>)

\* sep in s
Contains(s, sep) == \E k \in 1..Len(s) : s[k] = sep

(***************************************************************************)
(* extract_start_stop_from_month                                           *)
(***************************************************************************)
ClampLow(v, lo) == IF v < lo THEN lo ELSE v

ClampHigh(v, hi) == IF v > hi THEN hi ELSE v

\* (variant: the two numbers are not put in order first)
StartStopOfSwapless(a, b) ==
    LET s == ClampHigh(ClampLow(a, 1), 13)
        t == ClampLow(ClampHigh(b + 1, 13), 1)
    IN  <<s, t>>

\* (variant: stop is not moved one past the last month)
StartStopOfInclusive(a, b) ==
    LET lo == IF a > b THEN b ELSE a
        hi == IF a > b THEN a ELSE b
        s  == ClampHigh(ClampLow(lo, 1), 13)
        t  == ClampLow(ClampHigh(hi, 13), 1)
    IN  <<s, t>>

\* the two bounds of a month loop from the two parsed numbers
\* (strava_local_heatmap.py lines 200-213)
StartStopOf(a, b) ==
    LET lo == IF a > b THEN b ELSE a
        hi == IF a > b THEN a ELSE b
        s  == ClampHigh(ClampLow(lo, 1), 13)
        t  == ClampLow(ClampHigh(hi + 1, 13), 1)
    IN  <<s, t>>

\* returns [exc, val]: val = <<start, stop>> when exc = "none"
extract_start_stop_from_month(m) ==
    LET tmp == Split(m, "-")
    IN  IF Len(tmp) < 2 \/ tmp[1] = <<>> \/ tmp[Len(tmp)] = <<>>
        THEN [exc |-> "none", val |-> <<1, 13>>]
        ELSE IF ~IsInt(tmp[1]) \/ ~IsInt(tmp[Len(tmp)])
        THEN [exc |-> "ValueError", val |-> <<0, 0>>]
        ELSE [exc |-> "none", val |-> StartStopOf(ParseInt(tmp[1]), ParseInt(tmp[Len(tmp)]))]

(***************************************************************************)
(* Inputs of the month specifications                                      *)
(***************************************************************************)
\* the largest number written on either side of a month range 'a-b'
MaxMonthNum == 14

RangeString(a, b) == Str(a) \o <<"-">> \o Str(b)

\* malformed month strings: an empty side
OneSided == {<<"1", "-">>, <<"-", "1">>, <<"-">>, <<"1", "2", "-">>}

MonthInputs ==
    {RangeString(a, b) : a \in 0..MaxMonthNum, b \in 0..MaxMonthNum} \cup OneSided

\* the --month values main is run with
MainMonths ==
    { <<"0">>, RangeString(1, 12), RangeString(3, 9), RangeString(9, 3),
      RangeString(12, 0), RangeString(5, 5), <<"1", "-">>,
      <<"5">>, <<"1", "3">>, <<"a", "l", "l">>, <<"a", "-", "b">>, <<"x">> }

\* what a month's activities hold: no point at all, points that all lie
\* outside the bounding box, or at least one point inside it
Kinds == {"none", "out", "in"}

Months == 1..12

idleMain ==
    /\ month = <<>>
    /\ pc = "idle"
    /\ start = 0 /\ stop = 0 /\ i = 0
    /\ acts = [m \in Months |-> "none"]
    /\ cur = "none"
    /\ log = <<>>

idleTiles ==
    /\ rect = [xmin |-> 0, xmax |-> 0, ymin |-> 0, ymax |-> 0]
    /\ cache = <<>>
    /\ tpc = "idle"
    /\ tk = 0
    /\ requests = <<>>
    /\ nreads = 0
    /\ reported = FALSE
    /\ traised = "none"
    /\ calls = 0
    /\ prior = <<>>

idleDensity ==
    /\ lat_lon_data = <<>>
    /\ sigma_pixels = 0
    /\ clampIn = [pr |-> 0, nr |-> 0]
    /\ dpc = "idle"
    /\ dk = 0
    /\ accum = <<>>
    /\ clamped = <<>>
    /\ smooth = <<>>
    /\ norm = [num |-> <<>>, den |-> 0]
    /\ draised = "none"

idleComposite ==
    /\ supertile = <<>>
    /\ data = <<>>
    /\ data_color = <<>>
    /\ supertile_overlay = <<>>
    /\ chan = 0
    /\ cpc = "idle"

NoExtent == [exc |-> "none", rect |-> <<>>]

idleGeo ==
    /\ heatmap_zoom = 0
    /\ bound = <<>>
    /\ equal_extent = FALSE
    /\ points = <<>>
    /\ points2 = <<>>
    /\ extent1 = NoExtent
    /\ extent2 = NoExtent
    /\ xy_tile = <<>>
    /\ lat_lon = <<>>
    /\ tile_back = <<>>
    /\ gpc = "idle"

(***************************************************************************)
(* SpecMonth: extract_start_stop_from_month applied to one input            *)
(***************************************************************************)
InitMonth ==
    /\ month \in MonthInputs
    /\ pc = "call"
    /\ start = 0 /\ stop = 0 /\ i = 0
    /\ acts = [m \in Months |-> "none"]
    /\ cur = "none"
    /\ log = <<>>
    /\ idleTiles
    /\ idleDensity
    /\ idleComposite
    /\ idleGeo

ExtractCall ==
    /\ pc = "call"
    /\ LET r == extract_start_stop_from_month(month)
       IN  IF r.exc = "none"
           THEN /\ start' = r.val[1]
                /\ stop' = r.val[2]
                /\ pc' = "ret"
           ELSE /\ UNCHANGED <<start, stop>>
                /\ pc' = "raised"
    /\ UNCHANGED <<month, i, acts, cur, log>>
    /\ UNCHANGED <<tileVars, densVars, compVars, geoVars>>

NextMonth == ExtractCall

SpecMonth == InitMonth /\ [][NextMonth]_vars

(***************************************************************************)
(* main (strava_local_heatmap.py lines 216-258)                            *)
(***************************************************************************)
\* args.month == '0' or '-' in args.month
RangeMode(m) == m = <<"0">> \/ Contains(m, "-")

\* (variant: month '0' stops one month early)
AllMonthsRangeShort == <<1, 12>>

\* the loop bounds of month '0' (lines 231-232)
AllMonthsRange == <<1, 13>>

\* file_helpers.get_lat_lon_from_df: the kind of point set it returns for
\* the month string it is given ('all' or a number), or a ValueError
get_lat_lon_from_df(a, m) ==
    IF m = <<"a", "l", "l">>
    THEN [exc |-> "none",
          kind |-> IF \E k \in Months : a[k] = "in" THEN "in"
                   ELSE IF \E k \in Months : a[k] = "out" THEN "out"
                   ELSE "none"]
    ELSE IF ~IsInt(m) THEN [exc |-> "ValueError", kind |-> "none"]
    ELSE IF ParseInt(m) \in Months
    THEN [exc |-> "none", kind |-> a[ParseInt(m)]]
    ELSE [exc |-> "none", kind |-> "none"]

\* how a create_heatmap call can end, given the point set and the equal flag:
\* with the data extent, an empty cropped point set raises at line 117; in
\* every call the tile phase may raise (see SpecTiles)
CreateHeatmapOutcomes(kind, eq) ==
    IF ~eq /\ kind # "in" THEN {"raise"} ELSE {"ok", "raise"}

Entry(op, m, eq) == [op |-> op, month |-> m, equal |-> eq]

InitMain ==
    /\ month \in MainMonths
    /\ pc = "main"
    /\ start = 0 /\ stop = 0 /\ i = 0
    /\ \E d \in Kinds, s \in Months, c \in Kinds :
          acts = [m \in Months |-> IF m = s THEN c ELSE d]
    /\ cur = "none"
    /\ log = <<>>
    /\ idleTiles
    /\ idleDensity
    /\ idleComposite
    /\ idleGeo

\* lines 227-233
MainEnter ==
    /\ pc = "main"
    /\ IF RangeMode(month)
       THEN IF Contains(month, "-")
            THEN LET r == extract_start_stop_from_month(month)
                 IN  IF r.exc = "none"
                     THEN /\ start' = r.val[1]
                          /\ stop' = r.val[2]
                          /\ i' = r.val[1]
                          /\ pc' = "loop"
                     ELSE /\ UNCHANGED <<start, stop, i>>
                          /\ pc' = "raised"
            ELSE /\ start' = AllMonthsRange[1]
                 /\ stop' = AllMonthsRange[2]
                 /\ i' = AllMonthsRange[1]
                 /\ pc' = "loop"
       ELSE /\ UNCHANGED <<start, stop, i>>
            /\ pc' = "single"
    /\ UNCHANGED <<month, acts, cur, log>>
    /\ UNCHANGED <<tileVars, densVars, compVars, geoVars>>

\* lines 234-238: the next month of the loop, and its data
LoopNext ==
    /\ pc = "loop"
    /\ i < stop
    /\ LET r == get_lat_lon_from_df(acts, Str(i))
       IN  /\ cur' = r.kind
           /\ log' = Append(log, Entry("extract", Str(i), FALSE))
    /\ pc' = "check"
    /\ UNCHANGED <<month, start, stop, i, acts>>
    /\ UNCHANGED <<tileVars, densVars, compVars, geoVars>>

\* line 234: range(start, stop) is exhausted
LoopExit ==
    /\ pc = "loop"
    /\ i >= stop
    /\ pc' = "done"
    /\ UNCHANGED <<month, start, stop, i, acts, cur, log>>
    /\ UNCHANGED <<tileVars, densVars, compVars, geoVars>>

\* lines 247-250
SingleExtract ==
    /\ pc = "single"
    /\ LET r == get_lat_lon_from_df(acts, month)
       IN  IF r.exc = "none"
           THEN /\ cur' = r.kind
                /\ log' = Append(log, Entry("extract", month, FALSE))
                /\ pc' = "check"
           ELSE /\ UNCHANGED <<cur, log>>
                /\ pc' = "raised"
    /\ UNCHANGED <<month, start, stop, i, acts>>
    /\ UNCHANGED <<tileVars, densVars, compVars, geoVars>>

MonthArg == IF RangeMode(month) THEN Str(i) ELSE month

\* lines 239-242 and 251-254: lat_lon_data.size == 0
NoData ==
    /\ pc = "check"
    /\ cur = "none"
    /\ log' = Append(log, Entry("nodata", MonthArg, FALSE))
    /\ IF RangeMode(month)
       THEN /\ i' = i + 1
            /\ pc' = "loop"
       ELSE /\ i' = i
            /\ pc' = "done"
    /\ UNCHANGED <<month, start, stop, acts, cur>>
    /\ UNCHANGED <<tileVars, densVars, compVars, geoVars>>

\* lines 243-244 and 255-256
CallCreateHeatmap ==
    /\ pc = "check"
    /\ cur # "none"
    /\ log' = Append(log, Entry("heatmap", MonthArg, RangeMode(month)))
    /\ \E o \in CreateHeatmapOutcomes(cur, RangeMode(month)) :
          pc' = IF o = "ok" THEN "save" ELSE "raised"
    /\ UNCHANGED <<month, start, stop, i, acts, cur>>
    /\ UNCHANGED <<tileVars, densVars, compVars, geoVars>>

\* lines 245 and 257-258
SaveImage ==
    /\ pc = "save"
    /\ log' = Append(log, Entry("save", MonthArg, FALSE))
    /\ IF RangeMode(month)
       THEN /\ i' = i + 1
            /\ pc' = "loop"
       ELSE /\ i' = i
            /\ pc' = "done"
    /\ UNCHANGED <<month, start, stop, acts, cur>>
    /\ UNCHANGED <<tileVars, densVars, compVars, geoVars>>

NextMain ==
    \/ MainEnter
    \/ LoopNext
    \/ LoopExit
    \/ SingleExtract
    \/ NoData
    \/ CallCreateHeatmap
    \/ SaveImage

SpecMain == InitMain /\ [][NextMain]_vars

(***************************************************************************)
(* Claims about extract_start_stop_from_month and main                     *)
(***************************************************************************)
IsPrefix(s, t) == Len(s) <= Len(t) /\ SubSeq(t, 1, Len(s)) = s

\* what a month loop over lo..hi does when every create_heatmap call returns
MonthEntries(m) ==
    IF acts[m] = "none"
    THEN <<Entry("extract", Str(m), FALSE), Entry("nodata", Str(m), FALSE)>>
    ELSE <<Entry("extract", Str(m), FALSE), Entry("heatmap", Str(m), TRUE),
           Entry("save", Str(m), FALSE)>>

RECURSIVE FullLog(_, _)
FullLog(lo, hi) == IF lo > hi THEN <<>> ELSE MonthEntries(lo) \o FullLog(lo + 1, hi)

NumOps(op) == Cardinality({k \in 1..Len(log) : log[k].op = op})

\* the kind of point set the month string of a log entry stands for
PointKind(m) == get_lat_lon_from_df(acts, m).kind

\* C4: create_heatmap is never invoked, and no image saved, for a month
\* whose point set is empty after bounding-box filtering (no point at all, or
\* no point inside the bounding box); the no-data outcome is reported instead.
C4_NoRenderOfEmptyMonth ==
    \A k \in 1..Len(log) :
        /\ log[k].op \in {"heatmap", "save"} => PointKind(log[k].month) = "in"
        /\ (log[k].op = "extract" /\ PointKind(log[k].month) # "in" /\ k < Len(log))
              => log[k + 1].op = "nodata"

\* C6: for 'a-b' with non-negative a and b the result is
\* (clamp(min(a,b), 1, 13), clamp(max(a,b)+1, 1, 13)), so that
\* 1 <= start <= stop <= 13 and range(start, stop) is the months of
\* min(a,b)..max(a,b) that lie in 1..12; a string with an empty side gives (1, 13).
C6_StartStopOfRange ==
    /\ pc # "raised"
    /\ \A a \in 0..MaxMonthNum, b \in 0..MaxMonthNum :
          (pc = "ret" /\ month = RangeString(a, b)) =>
              LET lo == IF a < b THEN a ELSE b
                  hi == IF a < b THEN b ELSE a
                  es == IF lo < 1 THEN 1 ELSE IF lo > 13 THEN 13 ELSE lo
                  et == IF hi + 1 < 1 THEN 1 ELSE IF hi + 1 > 13 THEN 13 ELSE hi + 1
              IN  /\ start = es
                  /\ stop = et
                  /\ 1 <= start /\ start <= stop /\ stop <= 13
                  /\ start..(stop - 1) = {m \in 1..12 : lo <= m /\ m <= hi}
    /\ (pc = "ret" /\ month \in OneSided) => (start = 1 /\ stop = 13)

\* a reversed range with a side out of 1..12 has been parsed
C6_Witness ==
    /\ pc = "ret"
    /\ month = RangeString(12, 0)
    /\ start = 1
    /\ stop = 13

\* C7: month '0' and month '1-12' make main do the same thing: the loop
\* runs over 1..12, and the extractions, create_heatmap calls
\* (equal-extent on) and saves are, in order, those of FullLog(1, 12), up to a
\* create_heatmap call that raises.
C7_ZeroIsOneToTwelve ==
    (month \in {<<"0">>, RangeString(1, 12)} /\ pc # "main") =>
        /\ start = 1
        /\ stop = 13
        /\ IsPrefix(log, FullLog(1, 12))
        /\ pc = "done" => log = FullLog(1, 12)
        /\ pc = "raised" => (log # <<>> /\ log[Len(log)].op = "heatmap")

\* month '0' has run over the twelve months, rendering some and skipping one
C7_Witness ==
    /\ month = <<"0">>
    /\ pc = "done"
    /\ NumOps("extract") = 12
    /\ NumOps("save") = 11
    /\ NumOps("nodata") = 1

\* C8 as stated: '3-9' runs over months 3..9 in ascending order, one
\* create_heatmap call and then one save per non-empty month, and 9 renders
\* when no month is empty.
C8_NineRenders ==
    month = RangeString(3, 9) =>
        /\ IsPrefix(log, FullLog(3, 9))
        /\ (pc = "done" /\ \A m \in 3..9 : acts[m] # "none") => NumOps("save") = 9

\* C8 amended: '3-9' runs over months 3..9 in ascending order, one
\* create_heatmap call per non-empty month, followed by one save when the call
\* returns (a call that raises ends main), and a run that completes with no
\* month empty has made 7 renders.
C8_SevenRenders ==
    (month = RangeString(3, 9) /\ pc # "main") =>
        /\ start = 3
        /\ stop = 10
        /\ IsPrefix(log, FullLog(3, 9))
        /\ pc = "done" => log = FullLog(3, 9)
        /\ (pc = "done" /\ \A m \in 3..9 : acts[m] # "none")
              => (NumOps("heatmap") = 7 /\ NumOps("save") = 7)

\* '3-9' has completed with data in every month
C8_Witness ==
    /\ month = RangeString(3, 9)
    /\ pc = "done"
    /\ \A m \in 3..9 : acts[m] # "none"
    /\ NumOps("save") = 7

(***************************************************************************)
(* create_heatmap, tile phase: osm_helpers.download_tiles_for_area          *)
(* (lines 102-138) followed by create_supertile (lines 49-82)              *)
(***************************************************************************)
MAX_TILE_COUNT == 500

\* the largest tile indices of the rectangles whose cache is enumerated
MaxTileX == 2

MaxTileY == 1

\* the number of create_heatmap calls made on one rectangle
MaxCalls == 2

Rect(x0, x1, y0, y1) == [xmin |-> x0, xmax |-> x1, ymin |-> y0, ymax |-> y1]

\* total number of tiles (line 118)
TileCount(r) == (r.xmax - r.xmin + 1) * (r.ymax - r.ymin + 1)

\* the tiles the two nested range() loops visit, x outermost (lines 128-129
\* and 65-66): their number, and the k-th of them
RangeLen(lo, hi) == IF hi + 1 > lo THEN hi + 1 - lo ELSE 0

LoopLen(r) == RangeLen(r.xmin, r.xmax) * RangeLen(r.ymin, r.ymax)

LoopTile(r, k) ==
    LET h == RangeLen(r.ymin, r.ymax)
    IN  <<r.xmin + ((k - 1) \div h), r.ymin + ((k - 1) % h)>>

TilesOf(r) == {<<x, y>> : x \in r.xmin..r.xmax, y \in r.ymin..r.ymax}

\* the tile server's answers to requests.get (lines 87-94)
FetchOutcomes == {"ok", "exception", "not_ok"}

\* glob.glob(tile_file) is non-empty (line 133)
TileIsCached(c, t) == t \in DOMAIN c

\* download_tile_file's return value (lines 87-99): False after a request
\* exception, True after an OK response, None (no return statement is
\* reached) after a response that is not OK
download_tile_file(o) ==
    IF o = "exception" THEN "False"
    ELSE IF o = "ok" THEN "True"
    ELSE "None"

\* not <value>
Falsy(v) == v \in {"False", "None"}

\* plt.imsave (line 138), plt being the module matplotlib (line 3: import
\* matplotlib as plt), which has no attribute imsave (it is
\* matplotlib.pyplot's and matplotlib.image's): the call raises
plt_imsave == "AttributeError"

\* plt.imread of a tile file (line 68)
plt_imread(c, t) == IF t \in DOMAIN c THEN "read" ELSE "FileNotFoundError"

OversizeRects == {Rect(0, 500, 0, 0), Rect(0, 500, 0, 1)}

TileRects ==
    {Rect(x0, x1, y0, y1) : x0 \in 0..MaxTileX, x1 \in 0..MaxTileX,
                            y0 \in 0..MaxTileY, y1 \in 0..MaxTileY}

\* rectangles as create_heatmap derives them from a bounding box or from data
\* with lat_min <= lat_max and lon_min <= lon_max
OrderedRects == {r \in TileRects : r.xmin <= r.xmax /\ r.ymin <= r.ymax}

\* the tile files present before the call
CacheChoices(r) ==
    IF TileCount(r) <= MAX_TILE_COUNT
    THEN SUBSET TilesOf(r)
    ELSE {{}, TilesOf(r), TilesOf(r) \ {<<r.xmax, r.ymax>>}}

InitTiles ==
    /\ rect \in OrderedRects \cup OversizeRects
    /\ \E S \in CacheChoices(rect) : cache = [t \in S |-> "old"]
    /\ tpc = "download"
    /\ tk = 0
    /\ requests = <<>>
    /\ nreads = 0
    /\ reported = FALSE
    /\ traised = "none"
    /\ calls = 1
    /\ prior = <<>>
    /\ idleMain
    /\ idleDensity
    /\ idleComposite
    /\ idleGeo

\* download_tiles_for_area, lines 117-127: the tile count guard
DownloadEnter ==
    /\ tpc = "download"
    /\ IF TileCount(rect) > MAX_TILE_COUNT
       THEN /\ reported' = TRUE
            /\ tpc' = "supertile"     \* return; create_heatmap goes on (line 126)
            /\ tk' = 1
       ELSE /\ reported' = reported
            /\ tpc' = "tiles"
            /\ tk' = 1
    /\ UNCHANGED <<calls, prior, rect, cache, requests, nreads, traised>>
    /\ UNCHANGED <<mainVars, densVars, compVars, geoVars>>

\* lines 128-133: the tile's file exists, nothing is done
TileSkip ==
    /\ tpc = "tiles"
    /\ tk <= LoopLen(rect)
    /\ TileIsCached(cache, LoopTile(rect, tk))
    /\ tk' = tk + 1
    /\ UNCHANGED <<calls, prior, rect, cache, tpc, requests, nreads, reported, traised>>
    /\ UNCHANGED <<mainVars, densVars, compVars, geoVars>>

\* lines 133-138: the tile's file is missing, it is requested
TileFetch ==
    /\ tpc = "tiles"
    /\ tk <= LoopLen(rect)
    /\ ~TileIsCached(cache, LoopTile(rect, tk))
    /\ requests' = Append(requests, LoopTile(rect, tk))
    /\ \E o \in FetchOutcomes :
          IF ~Falsy(download_tile_file(o))
          THEN /\ cache' = (LoopTile(rect, tk) :> "fetched") @@ cache
               /\ tk' = tk + 1
               /\ UNCHANGED <<tpc, traised>>
          ELSE IF plt_imsave = "saved"
          THEN /\ cache' = (LoopTile(rect, tk) :> "placeholder") @@ cache
               /\ tk' = tk + 1
               /\ UNCHANGED <<tpc, traised>>
          ELSE /\ traised' = plt_imsave
               /\ tpc' = "raised"
               /\ UNCHANGED <<cache, tk>>
    /\ UNCHANGED <<calls, prior, rect, nreads, reported>>
    /\ UNCHANGED <<mainVars, densVars, compVars, geoVars>>

\* the loops of download_tiles_for_area are exhausted: back in create_heatmap
DownloadExit ==
    /\ tpc = "tiles"
    /\ tk > LoopLen(rect)
    /\ tpc' = "supertile"
    /\ tk' = 1
    /\ UNCHANGED <<calls, prior, rect, cache, requests, nreads, reported, traised>>
    /\ UNCHANGED <<mainVars, densVars, compVars, geoVars>>

\* create_supertile, lines 65-74: the next tile file is read
SupertileRead ==
    /\ tpc = "supertile"
    /\ tk <= LoopLen(rect)
    /\ IF plt_imread(cache, LoopTile(rect, tk)) = "read"
       THEN /\ nreads' = nreads + 1
            /\ tk' = tk + 1
            /\ UNCHANGED <<tpc, traised>>
       ELSE /\ traised' = plt_imread(cache, LoopTile(rect, tk))
            /\ tpc' = "raised"
            /\ UNCHANGED <<nreads, tk>>
    /\ UNCHANGED <<calls, prior, rect, cache, requests, reported>>
    /\ UNCHANGED <<mainVars, densVars, compVars, geoVars>>

\* create_supertile, lines 76-82: the supertile is returned
SupertileDone ==
    /\ tpc = "supertile"
    /\ tk > LoopLen(rect)
    /\ tpc' = "built"
    /\ UNCHANGED <<calls, prior, rect, cache, tk, requests, nreads, reported, traised>>
    /\ UNCHANGED <<mainVars, densVars, compVars, geoVars>>

\* create_heatmap is called again with the same bounding box and zoom: by
\* main's month loop after a render has been saved (lines 234-245), or by the
\* program being run again after a render that failed; the tiles folder is
\* what the earlier call left
CallAgain ==
    /\ tpc \in {"built", "raised"}
    /\ calls < MaxCalls
    /\ calls' = calls + 1
    /\ prior' = prior \o requests
    /\ requests' = <<>>
    /\ tpc' = "download"
    /\ tk' = 0
    /\ nreads' = 0
    /\ reported' = FALSE
    /\ traised' = "none"
    /\ UNCHANGED <<rect, cache>>
    /\ UNCHANGED <<mainVars, densVars, compVars, geoVars>>

NextTiles ==
    \/ DownloadEnter
    \/ TileSkip
    \/ TileFetch
    \/ DownloadExit
    \/ SupertileRead
    \/ SupertileDone
    \/ CallAgain

SpecTiles == InitTiles /\ [][NextTiles]_vars

(***************************************************************************)
(* Claims about the tile phase                                             *)
(***************************************************************************)
\* C1: when the rectangle holds more than MAX_TILE_COUNT tiles, create_heatmap
\* ends in the reported error before any tile is requested or read: it never
\* proceeds to create_supertile.
C1_OversizeStopsRender ==
    TileCount(rect) > MAX_TILE_COUNT =>
        /\ requests = <<>>
        /\ nreads = 0
        /\ tpc \notin {"supertile", "built"}
        /\ traised = "none"

\* C2: for a rectangle within MAX_TILE_COUNT, whatever the fetches' outcomes,
\* download_tiles_for_area does not raise and, once it has returned, every
\* tile of the rectangle has a file, so that create_supertile finds every
\* tile it reads.
C2_PlaceholderCompletesCache ==
    TileCount(rect) <= MAX_TILE_COUNT =>
        /\ traised = "none"
        /\ tpc \in {"supertile", "built"} => TilesOf(rect) \subseteq DOMAIN cache

\* the number of times tile t occurs in the request sequence q
RECURSIVE TimesRequested(_, _)
TimesRequested(t, q) ==
    IF Len(q) = 0 THEN 0
    ELSE (IF q[1] = t THEN 1 ELSE 0) + TimesRequested(t, Tail(q))

\* download_tiles_for_area has ended, by returning or by raising
DownloadEnded == tpc \in {"supertile", "built", "raised"}

\* C16: for a rectangle within MAX_TILE_COUNT, a tile whose file was in the
\* cache is never requested and its file is not written; once the first
\* download_tiles_for_area has ended every tile that was missing has been
\* requested exactly once; a second run on the same rectangle issues no
\* request.
C16_MissingOnceCachedNever ==
    TileCount(rect) <= MAX_TILE_COUNT =>
        /\ \A t \in DOMAIN cache :
              cache[t] = "old" => TimesRequested(t, prior \o requests) = 0
        /\ \A t \in TilesOf(rect) : TimesRequested(t, requests) <= 1
        /\ (calls = 1 /\ DownloadEnded) =>
              \A t \in TilesOf(rect) :
                  (t \notin DOMAIN cache \/ cache[t] # "old")
                      => TimesRequested(t, requests) = 1
        /\ calls > 1 => requests = <<>>

\* (the part of C16 about cached tiles and about repeated requests: a tile
\* whose file was there is never requested, and no tile is requested twice in
\* one call)
C16_CachedNever ==
    TileCount(rect) <= MAX_TILE_COUNT =>
        /\ \A t \in DOMAIN cache :
              cache[t] = "old" => TimesRequested(t, prior \o requests) = 0
        /\ \A t \in TilesOf(rect) : TimesRequested(t, requests) <= 1

(***************************************************************************)
(* create_heatmap, density phase (lines 106-122 and 132-158), on a          *)
(* rectangle of one tile.  Values are exact rationals kept as integers      *)
(* over a common denominator; the FFT product of box_filter is the circular *)
(* convolution it computes.                                                 *)
(***************************************************************************)
\* osm_helpers.OSM_TILE_SIZE, scaled down from 256 pixels
OSM_TILE_SIZE == 4

\* the largest number of points in lat_lon_data
MaxPoints == 2

\* data = np.zeros(supertile.shape[:2]) (line 133): rows and columns
GridH == OSM_TILE_SIZE

GridW == OSM_TILE_SIZE

Cells == (0..(GridH - 1)) \X (0..(GridW - 1))

Zeros == [rc \in Cells |-> 0]

\* A point of lat_lon_data is given by the pixel (i, j) that lines 138-140
\* compute for it (0..size: rounding can reach the far edge) and by whether
\* it lies strictly inside the bounding box (lines 107-110).
GeoPoints ==
    {[i |-> a, j |-> b, inb |-> TRUE] : a \in 0..GridH, b \in 0..GridW}
        \cup {[i |-> 0, j |-> 0, inb |-> FALSE]}

\* the accumulation adds 1 per point whatever their order: the point
\* sequences are enumerated up to reordering
PointKey(p) == IF p.inb THEN 1 + p.i * (GridW + 1) + p.j ELSE 0

PointSeqs ==
    {s \in UNION {[1..n -> GeoPoints] : n \in 0..MaxPoints} :
        \A k \in 1..(Len(s) - 1) : PointKey(s[k]) <= PointKey(s[k + 1])}

Sigmas == {1, 2}

\* pixel_res in metres per pixel (line 145: about 97 at zoom 10, 6 at zoom
\* 14, 1 at zoom 17, at 50.77 degrees north) and nr_activities
ClampInputs ==
    {[pr |-> 97, nr |-> 1], [pr |-> 6, nr |-> 1], [pr |-> 1, nr |-> 1],
     [pr |-> 97, nr |-> 0]}

\* the index a slice bound a stands for on an axis of length n
SliceIndex(a, n) ==
    IF a < 0 THEN (IF a + n < 0 THEN 0 ELSE a + n)
    ELSE IF a > n THEN n ELSE a

\* the indices of the slice [a:b] of an axis of length n
SliceRange(a, b, n) ==
    {r \in 0..(n - 1) : SliceIndex(a, n) <= r /\ r < SliceIndex(b, n)}

\* data[i - w:i + w + 1, j - w:j + w + 1] += 1 (line 141)
AddWindow(g, pi, pj, w) ==
    LET rows == SliceRange(pi - w, pi + w + 1, GridH)
        cols == SliceRange(pj - w, pj + w + 1, GridW)
    IN  [rc \in Cells |->
            IF rc[1] \in rows /\ rc[2] \in cols THEN g[rc] + 1 ELSE g[rc]]

\* int(np.sqrt(n))
ISqrt(n) == CHOOSE k \in 0..n : k * k <= n /\ n < (k + 1) * (k + 1)

\* w_pixels (line 135) and w_filter (line 154)
WPixels(sigma) == sigma

WFilter(sigma) == ISqrt(12 * sigma * sigma + 1)

\* lines 145-150, in fifths: m = (1/5) * pixel_res * nr_activities, and
\* data[data > m] = m.  pixel_res is NaN when there is no point (the mean of
\* an empty array), and no comparison with NaN is true.
Threshold(g, ci, npoints) ==
    [rc \in Cells |->
        IF npoints > 0 /\ 5 * g[rc] > ci.pr * ci.nr THEN ci.pr * ci.nr
        ELSE 5 * g[rc]]

\* the sum of the n cells of row r that end at column c, wrapping around
RECURSIVE SumCols(_, _, _, _)
SumCols(g, r, c, n) ==
    IF n = 0 THEN 0
    ELSE g[<<r, (c - (n - 1)) % GridW>>] + SumCols(g, r, c, n - 1)

\* the sum of the n cells of column c that end at row r, wrapping around
RECURSIVE SumRows(_, _, _, _)
SumRows(g, r, c, n) ==
    IF n = 0 THEN 0
    ELSE g[<<(r - (n - 1)) % GridH, c>>] + SumRows(g, r, c, n - 1)

Least(a, b) == IF a < b THEN a ELSE b

\* box_filter (lines 42-45), times w_box^2: rfft2(box, s=image.shape) puts
\* the box, cut to the image's shape, at indices 0..w_box-1 of both axes, and
\* irfft2 of the product is the circular convolution of image and box:
\* out[r, c] is the sum of image[r - a, c - b] over the box's (a, b), taken
\* here along the columns first and then along the rows
box_filter(g, w) ==
    LET nh == Least(w, GridH)
        nw == Least(w, GridW)
        along == [rc \in Cells |-> SumCols(g, rc[1], rc[2], nw)]
    IN  [rc \in Cells |-> SumRows(along, rc[1], rc[2], nh)]

GridValues(g) == {g[rc] : rc \in Cells}

GridMin(g) == LET vs == GridValues(g) IN CHOOSE v \in vs : \A u \in vs : v <= u

GridMax(g) == LET vs == GridValues(g) IN CHOOSE v \in vs : \A u \in vs : v >= u

\* (variant: the grid is divided by its maximum only)
NormalizeByMax(g) ==
    LET hi == GridMax(g)
    IN  [num |-> g, den |-> hi]

\* (data - data.min()) / (data.max() - data.min()) (line 158): each cell is
\* num/den; with den = 0 every cell is 0/0, which numpy evaluates to NaN
Normalize(g) ==
    LET lo == GridMin(g)
        hi == GridMax(g)
    IN  [num |-> [rc \in Cells |-> g[rc] - lo], den |-> hi - lo]

InitDensity ==
    /\ lat_lon_data \in PointSeqs
    /\ sigma_pixels \in Sigmas
    /\ clampIn = [pr |-> 0, nr |-> 0]
    /\ dpc = "crop"
    /\ dk = 0
    /\ accum = <<>>
    /\ clamped = <<>>
    /\ smooth = <<>>
    /\ norm = [num |-> <<>>, den |-> 0]
    /\ draised = "none"
    /\ idleMain
    /\ idleTiles
    /\ idleComposite
    /\ idleGeo

\* lines 107-110: crop data to bounding box
Crop ==
    /\ dpc = "crop"
    /\ lat_lon_data' = SelectSeq(lat_lon_data, LAMBDA p : p.inb)
    /\ dpc' = "extent"
    /\ UNCHANGED <<sigma_pixels, clampIn, dk, accum, clamped, smooth,
                   norm, draised>>
    /\ UNCHANGED <<mainVars, tileVars, compVars, geoVars>>

\* lines 112-133: the tile rectangle, from the bounding box or from the data
\* (the minimum of an empty array raises ValueError), then the tile phase
\* (SpecTiles) and data = np.zeros(...)
Extent ==
    /\ dpc = "extent"
    /\ \E equal \in BOOLEAN :
          IF ~equal /\ Len(lat_lon_data) = 0
          THEN /\ draised' = "ValueError"
               /\ dpc' = "raised"
               /\ UNCHANGED <<accum, dk>>
          ELSE /\ accum' = Zeros
               /\ dk' = 1
               /\ dpc' = "accumulate"
               /\ UNCHANGED draised
    /\ UNCHANGED <<lat_lon_data, sigma_pixels, clampIn, clamped, smooth,
                   norm>>
    /\ UNCHANGED <<mainVars, tileVars, compVars, geoVars>>

\* lines 137-141: one point of the loop
Accumulate ==
    /\ dpc = "accumulate"
    /\ dk <= Len(lat_lon_data)
    /\ accum' = AddWindow(accum, lat_lon_data[dk].i, lat_lon_data[dk].j,
                          WPixels(sigma_pixels))
    /\ dk' = dk + 1
    /\ UNCHANGED <<lat_lon_data, sigma_pixels, clampIn, dpc, clamped,
                   smooth, norm, draised>>
    /\ UNCHANGED <<mainVars, tileVars, compVars, geoVars>>

\* lines 143-150: threshold
Clamp ==
    /\ dpc = "accumulate"
    /\ dk > Len(lat_lon_data)
    /\ \E ci \in ClampInputs :
          /\ clampIn' = ci
          /\ clamped' = Threshold(accum, ci, Len(lat_lon_data))
    /\ dpc' = "filter"
    /\ UNCHANGED <<lat_lon_data, sigma_pixels, dk, accum, smooth, norm,
                   draised>>
    /\ UNCHANGED <<mainVars, tileVars, compVars, geoVars>>

\* lines 152-155
BoxFilter ==
    /\ dpc = "filter"
    /\ smooth' = box_filter(clamped, WFilter(sigma_pixels))
    /\ dpc' = "normalize"
    /\ UNCHANGED <<lat_lon_data, sigma_pixels, clampIn, dk, accum,
                   clamped, norm, draised>>
    /\ UNCHANGED <<mainVars, tileVars, compVars, geoVars>>

\* lines 157-158
NormalizeStep ==
    /\ dpc = "normalize"
    /\ norm' = Normalize(smooth)
    /\ dpc' = "done"
    /\ UNCHANGED <<lat_lon_data, sigma_pixels, clampIn, dk, accum,
                   clamped, smooth, draised>>
    /\ UNCHANGED <<mainVars, tileVars, compVars, geoVars>>

NextDensity ==
    \/ Crop
    \/ Extent
    \/ Accumulate
    \/ Clamp
    \/ BoxFilter
    \/ NormalizeStep

SpecDensity == InitDensity /\ [][NextDensity]_vars

(***************************************************************************)
(* Claims about the density phase                                          *)
(***************************************************************************)
IsConstant(g) == \A rc \in Cells : g[rc] = g[<<0, 0>>]

\* every cell of the normalised grid is a number, and it is 0
NormAllZero == norm.den # 0 /\ \A rc \in Cells : norm.num[rc] = 0

\* C3: when the smoothed grid is constant (max = min) the normalisation
\* yields the all-zero grid, and no division by zero or undefined value occurs.
C3_ConstantGivesZero ==
    (dpc = "done" /\ IsConstant(smooth)) => NormAllZero

\* C5: with a point sequence that is empty (as given or after the crop),
\* with or without equal extent, create_heatmap does not fail and its density
\* layer is all zero.
C5_EmptyGivesZero ==
    (dpc # "crop" /\ lat_lon_data = <<>>) =>
        /\ draised = "none"
        /\ dpc = "done" => NormAllZero

\* the single-point scenario: one point, its pixel away from the grid edges,
\* sigma = 1, one activity, a threshold m of at least 1
SinglePoint ==
    /\ Len(lat_lon_data) = 1
    /\ lat_lon_data[1].i \in 1..(GridH - 2)
    /\ lat_lon_data[1].j \in 1..(GridW - 2)
    /\ sigma_pixels = 1
    /\ clampIn.nr = 1
    /\ clampIn.pr * clampIn.nr >= 5

\* C9: in the single-point scenario the raw grid is 1 on exactly the 3x3
\* block centred at the point's pixel (i, j) and 0 elsewhere, no cell is
\* clamped, and after box filtering and normalisation the cell (i, j) holds
\* the grid's maximum 1.0.
C9_PeakAtPointPixel ==
    (dpc = "done" /\ SinglePoint) =>
        LET pi == lat_lon_data[1].i
            pj == lat_lon_data[1].j
        IN  /\ \A rc \in Cells :
                  accum[rc] = IF /\ rc[1] \in (pi - 1)..(pi + 1)
                                 /\ rc[2] \in (pj - 1)..(pj + 1)
                              THEN 1 ELSE 0
            /\ \A rc \in Cells : clamped[rc] = 5 * accum[rc]
            /\ norm.den > 0
            /\ norm.num[<<pi, pj>>] = norm.den

\* the properties of a normalised grid: every value in [0, 1], some cell
\* exactly 1 and some cell exactly 0
NormInUnitRange ==
    /\ norm.den > 0
    /\ \A rc \in Cells : 0 <= norm.num[rc] /\ norm.num[rc] <= norm.den
    /\ \E rc \in Cells : norm.num[rc] = norm.den
    /\ \E rc \in Cells : norm.num[rc] = 0

\* C10 as stated: for every raw grid (the thresholded accumulation) that is
\* not constant, smoothing and normalisation give values in [0, 1] with a
\* cell equal to 1 and a cell equal to 0.
C10_RawNotConstant ==
    (dpc = "done" /\ ~IsConstant(clamped)) => NormInUnitRange

\* C10 amended: the same for every raw grid whose smoothed grid is not
\* constant.
C10_SmoothNotConstant ==
    (dpc = "done" /\ ~IsConstant(smooth)) => NormInUnitRange

\* two points, one of them clamped, have been smoothed and normalised
C10_Witness ==
    /\ dpc = "done"
    /\ Len(lat_lon_data) = 2
    /\ \E rc \in Cells : clamped[rc] # 5 * accum[rc]
    /\ ~IsConstant(clamped)
    /\ ~IsConstant(smooth)
    /\ NormInUnitRange

\* the accumulation loop has ended and the threshold has not been applied
Accumulated == dpc = "accumulate" /\ dk > Len(lat_lon_data)

\* the pixel of point p lies in the grid
PixelInGrid(p) == p.i \in 0..(GridH - 1) /\ p.j \in 0..(GridW - 1)

\* the points whose pixel is within w rows and w columns of the cell rc
PointsNear(rc, w) ==
    {k \in 1..Len(lat_lon_data) :
        /\ lat_lon_data[k].i - w <= rc[1] /\ rc[1] <= lat_lon_data[k].i + w
        /\ lat_lon_data[k].j - w <= rc[2] /\ rc[2] <= lat_lon_data[k].j + w}

\* C15: after the accumulation and before the clamp, when every point's pixel
\* lies in the grid (pixels within w of a grid edge included), each cell's
\* value is the number of points whose pixel is within w rows and w columns
\* of it: every in-grid cell of a point's (2w+1)x(2w+1) window has been
\* incremented once for that point and no other cell has.
C15_WindowCounts ==
    (Accumulated /\ \A k \in 1..Len(lat_lon_data) : PixelInGrid(lat_lon_data[k]))
        => \A rc \in Cells :
              accum[rc] = Cardinality(PointsNear(rc, WPixels(sigma_pixels)))

\* (the same, for points whose pixel is at least w away from the low edges)
C15_AwayFromLowEdges ==
    (Accumulated /\ \A k \in 1..Len(lat_lon_data) :
                        /\ PixelInGrid(lat_lon_data[k])
                        /\ lat_lon_data[k].i >= WPixels(sigma_pixels)
                        /\ lat_lon_data[k].j >= WPixels(sigma_pixels))
        => \A rc \in Cells :
              accum[rc] = Cardinality(PointsNear(rc, WPixels(sigma_pixels)))

(***************************************************************************)
(* create_heatmap, colour and composite phase (lines 160-173).  A channel   *)
(* value is a multiple of 1/ColorLevels; the output is kept in multiples of *)
(* 1/ColorLevels^2.                                                         *)
(***************************************************************************)
\* the number of steps between the channel values 0.0 and 1.0
ColorLevels == 2

\* the largest number of pixels of the supertile
MaxPixels == 2

Levels == 0..ColorLevels

\* plt.get_cmap('hot') (line 160) as RGBA: red rises first, then green, then
\* blue; the colour of 0 is a dark red, the colour of 1 is white
cmap(d) ==
    <<Least(ColorLevels, d + 1), d,
      IF d = ColorLevels THEN ColorLevels ELSE 0, ColorLevels>>

\* lines 162-166: colorize, turn the colour of 0 into opaque black, drop alpha
Colorize(d) ==
    LET col == IF cmap(d) = cmap(0) THEN <<0, 0, 0, ColorLevels>> ELSE cmap(d)
    IN  SubSeq(col, 1, 3)

\* (variant: the colour is weighted by the base)
BlendWeighted(col, base) == (ColorLevels - col) * base + col * base

\* (1.0 - data_color) * supertile + data_color (line 172), in multiples of
\* 1/ColorLevels^2
Blend(col, base) == (ColorLevels - col) * base + col * ColorLevels

\* the supertile has three equal channels (lines 78-81)
Greys == {<<b, b, b>> : b \in Levels}

InitComposite ==
    /\ \E n \in 1..MaxPixels :
          /\ supertile \in [1..n -> Greys]
          /\ data \in [1..n -> Levels]
    /\ data_color = <<>>
    /\ supertile_overlay = <<>>
    /\ chan = 0
    /\ cpc = "colorize"
    /\ idleMain
    /\ idleTiles
    /\ idleDensity
    /\ idleGeo

\* lines 160-169: the colour layer, and the overlay as zeros of the
\* supertile's shape
ColorizeStep ==
    /\ cpc = "colorize"
    /\ data_color' = [p \in DOMAIN data |-> Colorize(data[p])]
    /\ supertile_overlay' = [p \in DOMAIN supertile |-> <<0, 0, 0>>]
    /\ chan' = 1
    /\ cpc' = "composite"
    /\ UNCHANGED <<supertile, data>>
    /\ UNCHANGED <<mainVars, tileVars, densVars, geoVars>>

\* lines 170-172: one channel of the loop
CompositeChannel ==
    /\ cpc = "composite"
    /\ chan <= 3
    /\ supertile_overlay' =
          [p \in DOMAIN supertile_overlay |->
              [supertile_overlay[p] EXCEPT
                  ![chan] = Blend(data_color[p][chan], supertile[p][chan])]]
    /\ chan' = chan + 1
    /\ UNCHANGED <<supertile, data, data_color, cpc>>
    /\ UNCHANGED <<mainVars, tileVars, densVars, geoVars>>

\* line 173
CompositeReturn ==
    /\ cpc = "composite"
    /\ chan > 3
    /\ cpc' = "returned"
    /\ UNCHANGED <<supertile, data, data_color, supertile_overlay, chan>>
    /\ UNCHANGED <<mainVars, tileVars, densVars, geoVars>>

NextComposite ==
    \/ ColorizeStep
    \/ CompositeChannel
    \/ CompositeReturn

SpecComposite == InitComposite /\ [][NextComposite]_vars

(***************************************************************************)
(* Claims about the composite                                              *)
(***************************************************************************)
\* C11: the returned image has the supertile's shape, every pixel and channel
\* holds (1 - color) * base + color, a pixel coloured (0, 0, 0) holds the base
\* and a pixel coloured (1, 1, 1) holds (1, 1, 1) whatever the base.
C11_Composite ==
    cpc = "returned" =>
        /\ DOMAIN supertile_overlay = DOMAIN supertile
        /\ \A p \in DOMAIN supertile_overlay :
              /\ Len(supertile_overlay[p]) = Len(supertile[p])
              /\ \A ch \in 1..3 :
                    /\ supertile_overlay[p][ch]
                          = (ColorLevels - data_color[p][ch]) * supertile[p][ch]
                              + data_color[p][ch] * ColorLevels
                    /\ data_color[p] = <<0, 0, 0>>
                          => supertile_overlay[p][ch]
                                = ColorLevels * supertile[p][ch]
                    /\ data_color[p] = <<ColorLevels, ColorLevels, ColorLevels>>
                          => supertile_overlay[p][ch] = ColorLevels * ColorLevels

\* an image has been returned with a black pixel over a base that is not
\* black and a white pixel over a base that is not white
C11_Witness ==
    /\ cpc = "returned"
    /\ \E p \in DOMAIN data_color :
          data_color[p] = <<0, 0, 0>> /\ supertile[p][1] > 0
    /\ \E p \in DOMAIN data_color :
          /\ data_color[p] = <<ColorLevels, ColorLevels, ColorLevels>>
          /\ supertile[p][1] < ColorLevels

(***************************************************************************)
(* Projection (osm_helpers.py lines 14-54) and create_heatmap's crop and    *)
(* tile extent (lines 106-124).  The world map is WorldUnits units wide and *)
(* high.  A longitude is its distance from the left edge (180 W), a         *)
(* latitude its height above the bottom edge (85.05 S) of the Mercator map: *)
(* both grow as the degrees do.                                            *)
(***************************************************************************)
\* the largest zoom level
MaxZoom == 2

\* the number of units along a tile's side at zoom MaxZoom
GeoRes == 2

RECURSIVE Pow2(_)
Pow2(z) == IF z = 0 THEN 1 ELSE 2 * Pow2(z - 1)

WorldUnits == Pow2(MaxZoom) * GeoRes

Zooms == 0..MaxZoom

\* deg2xy (lines 22-26), in 1/WorldUnits of a tile: x grows with the
\* longitude, y falls with the latitude (1.0 - ...), both times n = 2^zoom
deg2xy(lat_deg, lon_deg, zoom) ==
    <<lon_deg * Pow2(zoom), (WorldUnits - lat_deg) * Pow2(zoom)>>

\* int(a / b): the fraction is cut off towards zero
Trunc(a, b) == IF a >= 0 THEN a \div b ELSE -((-a) \div b)

\* deg2tile_coord (lines 38-39)
deg2tile_coord(lat_deg, lon_deg, zoom) ==
    LET xy == deg2xy(lat_deg, lon_deg, zoom)
    IN  <<Trunc(xy[1], WorldUnits), Trunc(xy[2], WorldUnits)>>

\* The latitude num2deg returns goes through arctan, sinh and degrees, and
\* deg2xy takes it through radians, tan, cos and log: the y that comes back
\* for a tile corner is the corner's, or a rounding error above or below it.
\* The error is one unit here.  x_tile / n * 360 - 180 and its inverse are
\* exact for a tile corner.
RoundingErrors == {-1, 0, 1}

\* num2deg (lines 50-54): <<lat_deg, lon_deg>> of the corner of a tile, with
\* the rounding error e on the latitude
num2deg(x_tile, y_tile, zoom, e) ==
    <<WorldUnits - y_tile * (WorldUnits \div Pow2(zoom)) + e,
      x_tile * (WorldUnits \div Pow2(zoom))>>

\* the values a bound of the box takes: the map's edges and its middle
BoundSites == {0, WorldUnits \div 2, WorldUnits}

Box(a, b, c, d) ==
    [lat_min |-> a, lat_max |-> b, lon_min |-> c, lon_max |-> d]

\* args.bound (line 222), four floats that nothing orders or validates
Boxes ==
    {Box(a, b, c, d) : a \in BoundSites, b \in BoundSites,
                       c \in BoundSites, d \in BoundSites}

\* the points <<lat, lon>> that the activities hold
GeoSites ==
    <<<<1, 1>>, <<WorldUnits \div 2, WorldUnits \div 2>>,
      <<1, WorldUnits \div 2 + 1>>, <<WorldUnits - 1, WorldUnits - 1>>>>

\* the point arrays: up to two of the sites, in the order of GeoSites
GeoData ==
    {<<>>}
        \cup {<<GeoSites[a]>> : a \in DOMAIN GeoSites}
        \cup {<<GeoSites[a], GeoSites[b]>> :
                  a \in DOMAIN GeoSites, b \in DOMAIN GeoSites}

\* lines 107-110: crop data to bounding box
CropToBox(pts, b) ==
    SelectSeq(pts, LAMBDA q : /\ q[1] > b.lat_min /\ q[1] < b.lat_max
                              /\ q[2] > b.lon_min /\ q[2] < b.lon_max)

ColMin(pts, col) ==
    CHOOSE v \in {pts[k][col] : k \in DOMAIN pts} :
        \A k \in DOMAIN pts : v <= pts[k][col]

ColMax(pts, col) ==
    CHOOSE v \in {pts[k][col] : k \in DOMAIN pts} :
        \A k \in DOMAIN pts : v >= pts[k][col]

\* x_tile_min, y_tile_max from the low corner and x_tile_max, y_tile_min from
\* the high corner (lines 113-114 and 121-122)
RectOfCorners(lat_lo, lon_lo, lat_hi, lon_hi, zoom) ==
    LET lo == deg2tile_coord(lat_lo, lon_lo, zoom)
        hi == deg2tile_coord(lat_hi, lon_hi, zoom)
    IN  Rect(lo[1], hi[1], hi[2], lo[2])

\* (variant: the rectangle is taken from the data whatever equal is)
TileRectOfData(eq, b, pts, zoom) ==
    IF Len(pts) = 0
    THEN [exc |-> "ValueError", rect |-> <<>>]
    ELSE [exc |-> "none",
          rect |-> RectOfCorners(ColMin(pts, 1), ColMin(pts, 2),
                                 ColMax(pts, 1), ColMax(pts, 2), zoom)]

\* lines 112-122: the tile rectangle of the bounding box when equal is set,
\* of the cropped data otherwise; the minimum of an empty array raises
\* ValueError
TileRectOf(eq, b, pts, zoom) ==
    IF eq
    THEN [exc |-> "none",
          rect |-> RectOfCorners(b.lat_min, b.lon_min,
                                 b.lat_max, b.lon_max, zoom)]
    ELSE IF Len(pts) = 0
    THEN [exc |-> "ValueError", rect |-> <<>>]
    ELSE [exc |-> "none",
          rect |-> RectOfCorners(ColMin(pts, 1), ColMin(pts, 2),
                                 ColMax(pts, 1), ColMax(pts, 2), zoom)]

\* supertile_size (lines 61-62)
ShapeOf(r) ==
    <<(r.ymax - r.ymin + 1) * OSM_TILE_SIZE,
      (r.xmax - r.xmin + 1) * OSM_TILE_SIZE, 3>>

\* a create_heatmap call is about to run
InitHeatmapCall ==
    /\ heatmap_zoom \in Zooms
    /\ bound \in Boxes
    /\ equal_extent \in BOOLEAN
    /\ points \in GeoData
    /\ points2 = <<>>
    /\ extent1 = NoExtent
    /\ extent2 = NoExtent
    /\ xy_tile = <<>>
    /\ lat_lon = <<>>
    /\ tile_back = <<>>
    /\ gpc = "crop"

\* a tile corner is about to be taken through num2deg and deg2tile_coord
InitRoundTrip ==
    /\ heatmap_zoom \in Zooms
    /\ bound = <<>>
    /\ equal_extent = FALSE
    /\ points = <<>>
    /\ points2 = <<>>
    /\ extent1 = NoExtent
    /\ extent2 = NoExtent
    /\ xy_tile = <<>>
    /\ lat_lon = <<>>
    /\ tile_back = <<>>
    /\ gpc = "num2deg"

InitGeo ==
    /\ InitHeatmapCall \/ InitRoundTrip
    /\ idleMain
    /\ idleTiles
    /\ idleDensity
    /\ idleComposite

\* create_heatmap, lines 107-110
GeoCrop ==
    /\ gpc = "crop"
    /\ points' = CropToBox(points, bound)
    /\ gpc' = "extent"
    /\ UNCHANGED <<heatmap_zoom, bound, equal_extent, points2, extent1,
                   extent2, xy_tile, lat_lon, tile_back>>
    /\ UNCHANGED <<mainVars, tileVars, densVars, compVars>>

\* create_heatmap, lines 112-124: the rectangle handed to
\* download_tiles_for_area and create_supertile, or the exception
GeoExtent ==
    /\ gpc = "extent"
    /\ extent1' = TileRectOf(equal_extent, bound, points, heatmap_zoom)
    /\ gpc' = "called"
    /\ UNCHANGED <<heatmap_zoom, bound, equal_extent, points, points2,
                   extent2, xy_tile, lat_lon, tile_back>>
    /\ UNCHANGED <<mainVars, tileVars, densVars, compVars>>

\* a second create_heatmap call with the same bounding box, zoom and equal
\* and with point data of its own (main's next month, lines 234-244):
\* lines 107-124 again
SecondCall ==
    /\ gpc = "called"
    /\ \E pts \in GeoData :
          /\ points2' = CropToBox(pts, bound)
          /\ extent2' = TileRectOf(equal_extent, bound,
                                   CropToBox(pts, bound), heatmap_zoom)
    /\ gpc' = "called twice"
    /\ UNCHANGED <<heatmap_zoom, bound, equal_extent, points, extent1,
                   xy_tile, lat_lon, tile_back>>
    /\ UNCHANGED <<mainVars, tileVars, densVars, compVars>>

\* num2deg of an integer tile index of the zoom level
Unproject ==
    /\ gpc = "num2deg"
    /\ \E xi \in 0..(Pow2(heatmap_zoom) - 1), yi \in 0..(Pow2(heatmap_zoom) - 1),
          e \in RoundingErrors :
          /\ xy_tile' = <<xi, yi>>
          /\ lat_lon' = num2deg(xi, yi, heatmap_zoom, e)
    /\ gpc' = "deg2tile"
    /\ UNCHANGED <<heatmap_zoom, bound, equal_extent, points, points2,
                   extent1, extent2, tile_back>>
    /\ UNCHANGED <<mainVars, tileVars, densVars, compVars>>

\* deg2tile_coord of what num2deg returned, at the same zoom
TileIndex ==
    /\ gpc = "deg2tile"
    /\ tile_back' = deg2tile_coord(lat_lon[1], lat_lon[2], heatmap_zoom)
    /\ gpc' = "back"
    /\ UNCHANGED <<heatmap_zoom, bound, equal_extent, points, points2,
                   extent1, extent2, xy_tile, lat_lon>>
    /\ UNCHANGED <<mainVars, tileVars, densVars, compVars>>

NextGeo ==
    \/ GeoCrop
    \/ GeoExtent
    \/ SecondCall
    \/ Unproject
    \/ TileIndex

SpecGeo == InitGeo /\ [][NextGeo]_vars

(***************************************************************************)
(* Claims about the projection and the tile extent                         *)
(***************************************************************************)
\* C12: for every zoom and every integer tile index (xi, yi) with
\* 0 <= xi, yi < 2^zoom, deg2tile_coord of num2deg(xi, yi, zoom) at the same
\* zoom is (xi, yi).
C12_RoundTrip ==
    gpc = "back" => tile_back = xy_tile

\* (the part of C12 that holds: the x index comes back, and the y index comes
\* back or is the one above it)
C12_RoundTripWithin ==
    gpc = "back" =>
        /\ tile_back[1] = xy_tile[1]
        /\ tile_back[2] \in {xy_tile[2], xy_tile[2] - 1}

\* the first call has handed a rectangle to download_tiles_for_area
Handed == gpc \in {"called", "called twice"} /\ extent1.exc = "none"

RectOrdered(r) == r.xmin <= r.xmax /\ r.ymin <= r.ymax

\* C13: with equal set, two create_heatmap calls with the same bounding box
\* and zoom and with different point data use the same tile rectangle, and the
\* supertile and the returned image have the same shape.
C13_SameExtent ==
    (gpc = "called twice" /\ equal_extent) =>
        /\ extent1.exc = "none"
        /\ extent2 = extent1
        /\ ShapeOf(extent2.rect) = ShapeOf(extent1.rect)

\* two calls with equal set whose point data differ, and whose rectangles
\* would differ were they taken from the data
C13_Witness ==
    /\ gpc = "called twice"
    /\ equal_extent
    /\ Len(points) > 0
    /\ Len(points2) > 0
    /\ points2 # points
    /\ extent2 = extent1
    /\ RectOrdered(extent1.rect)
    /\ TileRectOf(FALSE, bound, points, heatmap_zoom)
          # TileRectOf(FALSE, bound, points2, heatmap_zoom)

\* C14: in every create_heatmap call, with equal set or not and for any
\* bounding box, the tile indices handed to download_tiles_for_area and
\* create_supertile satisfy x_tile_min <= x_tile_max and
\* y_tile_min <= y_tile_max.
C14_RectOrdered ==
    Handed => RectOrdered(extent1.rect)

\* (the part of C14 that holds: the rectangle taken from the data, and the
\* rectangle of a bounding box whose minima are not above its maxima)
C14_OrderedFromData ==
    (Handed /\ (~equal_extent \/ (/\ bound.lat_min <= bound.lat_max
                                  /\ bound.lon_min <= bound.lon_max)))
        => RectOrdered(extent1.rect)

====
